---- MODULE Spec2Model ----
(***************************************************************************)
(* Timeline synchronisation and compositing of agent-video.                *)
(*                                                                         *)
(* Two programs of the repository build the composite:                     *)
(*   - bin/narrator.sh, a command-line helper whose state is the session   *)
(*     directory (init / start / audio / mark / video / finalize / upload) *)
(*   - mcp-server/index.js, createNarratedRecording, one asynchronous      *)
(*     function that runs research, audio, performance and post-processing *)
(* A behaviour runs one of the two (variable impl, chosen in Init).        *)
(*                                                                         *)
(* Units: wall-clock values and mark fields are integer milliseconds, as   *)
(* in the code; durations reported by ffprobe are decimal seconds with six *)
(* digits and are kept as integer microseconds.                            *)
(***************************************************************************)
EXTENDS Integers, Sequences, FiniteSets, TLC

\* ------------------------------------------------------------------ bounds
MaxMarks == 2      \* mark lines a narrator.sh session may hold
MaxTicks == 1      \* commands of a session before which the wall clock advances
MaxPages == 2      \* pages given to createNarratedRecording
MaxSegs == 2       \* segments given to calculateSegmentTimings
MaxChars == 4      \* entries of the character_start_times_seconds array
MaxLines == 3      \* lines of a marks.txt given to finalize as a file

\* A file that does not exist.
Absent == -1

\* Clip numbers given to narrator.sh audio / mark.
ClipNums == {1, 2}

\* Numbers that name clip_<n>.mp3 / segment_<n>.mp4 files.
FileNums == ClipNums \cup (1..MaxPages)

\* How far the wall clock advances between two commands, ms.
TickStepsMs == {1000}
ElapsedMs == {0} \cup TickStepsMs

\* Durations the speech provider reports for a clip (last character end time).
AudioDurationsMs == {1000}

\* Durations the provider reports when the audio of a clip is generated again.
RerunDurationsMs == {500, 1000}

\* Lengths of the raw recording the browser leaves behind, in microseconds.
RecordingDurationsUs == {1000000, 2000000}

\* Encoder drift: measured duration of a segment minus the requested one.
DriftsUs == {40600}

\* Time one call of the browser driver takes (a navigation, a scroll), ms.
BrowserLatenciesMs == {0, 300}

\* How much of the wall-clock time of the recording is missing at the end of the
\* file the recorder writes, in microseconds.
RecorderLossUs == {0, 500000}

\* The sleeps of createNarratedRecording, ms.
ResearchOpenSleepMs == 2000
ResearchNavSleepMs == 2000
ResearchCloseSleepMs == 1000
PerformOpenSleepMs == 2000
PerformNavSleepMs == 1000
StopSleepMs == 1000

\* One timed cue of a clip (an entry of segmentTimings).
Cue(startTimeMs, scrollTo) == [startTimeMs |-> startTimeMs, scrollTo |-> scrollTo]

\* What generateAudio returns for a page: the clip's duration and its cues
\* (none: the fallback branch of the performance pass).
ClipSamples ==
    {[durationMs |-> 1000, segmentTimings |-> <<>>],
     [durationMs |-> 1000,
      segmentTimings |-> <<Cue(0, "top"), Cue(800, "ref"), Cue(900, "bottom")>>]}

\* What one run of the external encoder does for one segment.
EncOutcomes ==
    {[exit |-> 1, wrote |-> FALSE, drift |-> 0]}
    \cup {[exit |-> 0, wrote |-> TRUE, drift |-> d] : d \in DriftsUs}

VARIABLES
    impl,                \* "sh": narrator.sh, "js": index.js
    now,                 \* wall clock, ms
    ticks,               \* times the wall clock has advanced
    \* ---- narrator.sh: $SESSION_FILE and the files of the session directory
    session_id,          \* id of the current session directory, Absent if none
    clip_count,          \* clip_count.txt
    marks,               \* marks.txt, one record per line
    recording_start_ms,  \* recording_start_ms.txt, Absent if missing
    clip_duration_ms,    \* clip_<n>_duration_ms.txt, Absent if missing
    clip_mp3,            \* the n for which clip_<n>.mp3 exists
    recording_webm,      \* recording.webm: its duration in us, Absent if missing
    segment_mp4,         \* segment_<n>.mp4: its duration in us, Absent if missing
    concat_list,         \* whether concat_list.txt exists
    concat_mp4,          \* whether concat.mp4 exists
    output_mp4,          \* whether output.mp4 exists
    run,                 \* what the last command / the tool call reports
    \* ---- index.js: createNarratedRecording (marks, clip_mp3, recording_webm,
    \* segment_mp4, concat_list, concat_mp4, output_mp4, recording_start_ms and
    \* run are its marks array, its session directory, recordingStartMs and its
    \* result)
    pc,                  \* where the function is
    pages,               \* pages.length
    pageData,            \* pageData.length
    clips,               \* the clips array
    page_i,              \* the loop index i (the page being recorded), from 1
    segIdx,              \* the cue loop index, from 1
    segmentStartTime,    \* Date.now() when the cue loop of the page started
    browser,             \* "closed" / "open": the external browser driver
    recording,           \* whether the driver is recording
    sleeps,              \* the arguments of the sleep calls made for the current page
    callLog,             \* the external calls made so far, in order
    \* ---- index.js: one call of calculateSegmentTimings
    segments,            \* the segments argument: the length of each text
    charStartTimes,      \* the charStartTimes argument, in microseconds
    segmentTimings       \* what the call returned, <<>> before it returns

shVars == <<session_id, clip_count, marks, recording_start_ms, clip_duration_ms,
            clip_mp3, recording_webm, segment_mp4, concat_list, concat_mp4,
            output_mp4, run>>

jsVars == <<pc, pages, pageData, clips, page_i, segIdx, segmentStartTime,
            browser, recording, sleeps, callLog>>

timingVars == <<segments, charStartTimes, segmentTimings>>

vars == <<impl, now, ticks, shVars, jsVars, timingVars>>

\* ------------------------------------------------------- pure helpers (sh)

\* The wall clock when a command that reads it runs: elapsed after the command
\* before it.
Elapse(elapsed) ==
    /\ elapsed > 0 => ticks < MaxTicks
    /\ now' = now + elapsed
    /\ ticks' = IF elapsed > 0 THEN ticks + 1 ELSE ticks

\* get_timestamp_ms: int(time.time() * 1000), read while the command runs.
get_timestamp_ms == now'

\* date +%s: the wall clock in whole seconds, which names the session directory.
SessionIdAt(ms) == ms \div 1000

\* awk '{printf "%.3f", $1 / 1000}': integer ms printed as decimal seconds with
\* three digits, kept as the pair (whole seconds, thousandths).
MsToSec3(ms) == [whole |-> ms \div 1000, frac |-> ms % 1000]

\* awk '{printf "%.3f", $1 + $2}' on two such values.
AddSec3(a, b) ==
    [whole |-> a.whole + b.whole + ((a.frac + b.frac) \div 1000),
     frac  |-> (a.frac + b.frac) % 1000]

\* A three-digit decimal of seconds read back as a number, in microseconds.
Sec3ToUs(s) == (s.whole * 1000 + s.frac) * 1000

\* awk '{print ($1 <= $2) ? "yes" : "no"}' on end_sec and recording_duration.
is_valid(end_sec, recording_us) == Sec3ToUs(end_sec) <= recording_us

\* awk '{printf "%.0f", $1 * 1000}' / Math.round(parseFloat(d) * 1000): probed
\* seconds to integer ms, rounded to nearest (no exact halves occur here).
RoundUsToMs(us) == (us + 500) \div 1000

\* One line of marks.txt.
CommentLine == [kind |-> "comment", num |-> 0, start_ms |-> 0, duration_ms |-> 0]
MarkLine(n, off, dur) ==
    [kind |-> "mark", num |-> n, start_ms |-> off, duration_ms |-> dur]
EmptyLine ==
    [kind |-> "empty", num |-> Absent, start_ms |-> Absent, duration_ms |-> Absent]

\* A line of other text: its first three whitespace-separated fields as awk
\* prints them, Absent for a field the line does not have.
TextLine(n, off, dur) ==
    [kind |-> "text", num |-> n, start_ms |-> off, duration_ms |-> dur]

\* The three tests of the finalize loop that end an iteration before a line is
\* used: a comment, an empty line, a line with fewer than three fields.
SkipLine(line) ==
    \/ line.kind = "comment"
    \/ line.kind = "empty"
    \/ line.num = Absent \/ line.start_ms = Absent \/ line.duration_ms = Absent


\* What a command leaves behind for its caller: exit code, error message, and
\* for finalize the steps it ran, the concat list it printed, the encoder calls
\* it made, and what it put into output.mp4: the video track, the delayed audio
\* streams and the inputs= of amix (inputs 0: no filter, the track is copied).
RunOf(exit, err) ==
    [exit |-> exit, err |-> err, stages |-> <<>>, list |-> <<>>, calls |-> <<>>,
     video |-> <<>>, audio |-> <<>>, inputs |-> 0]

NoSession == session_id = Absent

\* The lines of marks.txt that are marks.
MarkIdx == {i \in 1..Len(marks) : marks[i].kind = "mark"}

\* ------------------------------------------------------ narrator.sh commands

\* cmd_init: mkdir -p of session-<seconds>; a second init within the same second
\* names the directory that already exists and rewrites only three of its files.
cmd_init(elapsed) ==
    /\ impl = "sh"
    /\ Elapse(elapsed)
    /\ LET id == SessionIdAt(now') IN
       /\ session_id' = id
       /\ clip_count' = 0
       /\ marks' = <<CommentLine>>
       /\ IF session_id = id
          THEN UNCHANGED <<recording_start_ms, clip_duration_ms, clip_mp3,
                           recording_webm, segment_mp4, concat_list, concat_mp4,
                           output_mp4>>
          ELSE /\ recording_start_ms' = Absent
               /\ clip_duration_ms' = [n \in FileNums |-> Absent]
               /\ clip_mp3' = {}
               /\ recording_webm' = Absent
               /\ segment_mp4' = [n \in FileNums |-> Absent]
               /\ concat_list' = FALSE
               /\ concat_mp4' = FALSE
               /\ output_mp4' = FALSE
    /\ run' = RunOf(0, "")
    /\ UNCHANGED <<timingVars, impl, jsVars>>

\* The files a failing command leaves alone.
shFiles == <<session_id, clip_count, marks, recording_start_ms, clip_duration_ms,
             clip_mp3, recording_webm, segment_mp4, concat_list, concat_mp4,
             output_mp4>>

\* cmd_start, cmd_audio, cmd_video and cmd_upload leave the session directory
\* untouched when they refuse (no session, an error answer of the provider, no
\* video file): those early exits are the guards of the actions.
cmd_start(elapsed) ==
    /\ impl = "sh"
    /\ ~NoSession
    /\ Elapse(elapsed)
    /\ recording_start_ms' = get_timestamp_ms
    /\ run' = RunOf(0, "")
    /\ UNCHANGED <<session_id, clip_count, marks, clip_duration_ms, clip_mp3,
                   recording_webm, segment_mp4, concat_list, concat_mp4,
                   output_mp4>>
    /\ UNCHANGED <<timingVars, impl, jsVars>>

\* cmd_audio: duration_ms is the last character end time of the provider's
\* answer, in ms.
cmd_audio(clip_num, duration_ms) ==
    /\ impl = "sh"
    /\ ~NoSession
    /\ clip_mp3' = clip_mp3 \cup {clip_num}
    /\ clip_duration_ms' = [clip_duration_ms EXCEPT ![clip_num] = duration_ms]
    /\ clip_count' = IF clip_num > clip_count THEN clip_num ELSE clip_count
    /\ run' = RunOf(0, "")
    /\ UNCHANGED <<session_id, marks, recording_start_ms, recording_webm,
                   segment_mp4, concat_list, concat_mp4, output_mp4>>
    /\ UNCHANGED <<timingVars, impl, now, ticks, jsVars>>

\* The checks of cmd_mark, in the order of the code: the error message of the
\* first one that fails, "" when the mark is written.
\* Variant: cmd_mark without the check of recording_start_ms.txt.
MarkErrorMutNoStartCheck(clip_num) ==
    IF NoSession THEN "No active session"
    ELSE IF clip_duration_ms[clip_num] = Absent THEN "No duration found"
    ELSE ""
\* Variant: cmd_mark without the check of the duration file.
MarkErrorMutNoDurationCheck(clip_num) ==
    IF NoSession THEN "No active session"
    ELSE IF recording_start_ms = Absent THEN "Recording start time not set"
    ELSE ""
MarkError(clip_num) ==
    IF NoSession THEN "No active session"
    ELSE IF recording_start_ms = Absent THEN "Recording start time not set"
    ELSE IF clip_duration_ms[clip_num] = Absent THEN "No duration found"
    ELSE ""

\* Variant: the line written with > instead of >>.
AppendMarkMutOverwrite(log, line) == <<line>>

\* printf "%s %s %s\n" ... >> marks.txt
AppendMark(log, line) == Append(log, line)

cmd_mark(clip_num, elapsed) ==
    /\ impl = "sh"
    /\ Cardinality(MarkIdx) < MaxMarks
    /\ Elapse(elapsed)
    /\ IF MarkError(clip_num) # ""
       THEN /\ run' = RunOf(1, MarkError(clip_num))
            /\ UNCHANGED shFiles
       ELSE LET now_ms == get_timestamp_ms
                start_ms == IF recording_start_ms = Absent THEN 0
                            ELSE recording_start_ms
                offset_ms == now_ms - start_ms
                duration_ms == IF clip_duration_ms[clip_num] = Absent THEN 0
                               ELSE clip_duration_ms[clip_num]
            IN /\ marks' = AppendMark(marks, MarkLine(clip_num, offset_ms, duration_ms))
               /\ run' = RunOf(0, "")
               /\ UNCHANGED <<session_id, clip_count, recording_start_ms,
                              clip_duration_ms, clip_mp3, recording_webm,
                              segment_mp4, concat_list, concat_mp4, output_mp4>>
    /\ UNCHANGED <<timingVars, impl, jsVars>>

\* cmd_video: found is the duration of the newest *.webm of the videos directory.
cmd_video(found) ==
    /\ impl = "sh"
    /\ ~NoSession
    /\ recording_webm' = found
    /\ run' = RunOf(0, "")
    /\ UNCHANGED <<session_id, clip_count, marks, recording_start_ms,
                   clip_duration_ms, clip_mp3, segment_mp4, concat_list,
                   concat_mp4, output_mp4>>
    /\ UNCHANGED <<timingVars, impl, now, ticks, jsVars>>

\* ------------------------------------------------------ narrator.sh finalize

\* One pass of the extraction loop (while read -r line ... done < marks.txt) from
\* line i on. st holds the segment files, the concat list written so far, the
\* encoder calls made and the exit code of the script (0 while it runs; the
\* script runs under set -e, so an encoder that exits non-zero ends it).
\* enc maps each mark line to what the encoder does for it.
RECURSIVE ExtractLoop(_, _, _, _)
\* Variant: the concat list kept sorted by clip number.
ExtractLoopMutSorted(i, st, enc, recording_us) ==
    IF i > Len(marks) \/ st.exit # 0 THEN st
    ELSE LET line == marks[i] IN
         IF SkipLine(line) THEN ExtractLoop(i + 1, st, enc, recording_us)
         ELSE
         LET start_sec == MsToSec3(line.start_ms)
             duration_sec == MsToSec3(line.duration_ms)
             end_sec == AddSec3(start_sec, duration_sec)
         IN  IF ~is_valid(end_sec, recording_us)
             THEN ExtractLoop(i + 1, st, enc, recording_us)
             ELSE
             LET o == enc[i]
                 measured == Sec3ToUs(duration_sec) + o.drift
                 seg == IF o.wrote THEN [st.seg EXCEPT ![line.num] = measured]
                        ELSE st.seg
                 call == [num |-> line.num, exit |-> o.exit, wrote |-> o.wrote,
                         us |-> IF o.wrote THEN measured ELSE 0]
                 calls == Append(st.calls, call)
             IN  IF o.exit # 0
                 THEN [st EXCEPT !.seg = seg, !.calls = calls, !.exit = o.exit]
                 ELSE IF seg[line.num] # Absent
                 THEN ExtractLoop(i + 1,
                          [st EXCEPT !.seg = seg,
                                     !.list = SelectSeq(st.list, LAMBDA n : n <= line.num)
                                              \o <<line.num>>
                                              \o SelectSeq(st.list, LAMBDA n : n > line.num),
                                     !.calls = calls],
                          enc, recording_us)
                 ELSE ExtractLoop(i + 1,
                          [st EXCEPT !.seg = seg, !.calls = calls],
                          enc, recording_us)
\* Variant: a line with fewer than three fields ends the script.
ExtractLoopMutAbortOnMalformed(i, st, enc, recording_us) ==
    IF i > Len(marks) \/ st.exit # 0 THEN st
    ELSE LET line == marks[i] IN
         IF line.kind = "text" THEN [st EXCEPT !.exit = 1]
         ELSE IF SkipLine(line) THEN ExtractLoop(i + 1, st, enc, recording_us)
         ELSE
         LET start_sec == MsToSec3(line.start_ms)
             duration_sec == MsToSec3(line.duration_ms)
             end_sec == AddSec3(start_sec, duration_sec)
         IN  IF ~is_valid(end_sec, recording_us)
             THEN ExtractLoop(i + 1, st, enc, recording_us)
             ELSE
             LET o == enc[i]
                 measured == Sec3ToUs(duration_sec) + o.drift
                 seg == IF o.wrote THEN [st.seg EXCEPT ![line.num] = measured]
                        ELSE st.seg
                 call == [num |-> line.num, exit |-> o.exit, wrote |-> o.wrote,
                         us |-> IF o.wrote THEN measured ELSE 0]
                 calls == Append(st.calls, call)
             IN  IF o.exit # 0
                 THEN [st EXCEPT !.seg = seg, !.calls = calls, !.exit = o.exit]
                 ELSE IF seg[line.num] # Absent
                 THEN ExtractLoop(i + 1,
                          [st EXCEPT !.seg = seg,
                                     !.list = Append(st.list, line.num),
                                     !.calls = calls],
                          enc, recording_us)
                 ELSE ExtractLoop(i + 1,
                          [st EXCEPT !.seg = seg, !.calls = calls],
                          enc, recording_us)
ExtractLoop(i, st, enc, recording_us) ==
    IF i > Len(marks) \/ st.exit # 0 THEN st
    ELSE LET line == marks[i] IN
         IF SkipLine(line) THEN ExtractLoop(i + 1, st, enc, recording_us)
         ELSE
         LET start_sec == MsToSec3(line.start_ms)
             duration_sec == MsToSec3(line.duration_ms)
             end_sec == AddSec3(start_sec, duration_sec)
         IN  IF ~is_valid(end_sec, recording_us)
             THEN ExtractLoop(i + 1, st, enc, recording_us)
             ELSE
             LET o == enc[i]
                 measured == Sec3ToUs(duration_sec) + o.drift
                 seg == IF o.wrote THEN [st.seg EXCEPT ![line.num] = measured]
                        ELSE st.seg
                 call == [num |-> line.num, exit |-> o.exit, wrote |-> o.wrote,
                         us |-> IF o.wrote THEN measured ELSE 0]
                 calls == Append(st.calls, call)
             IN  IF o.exit # 0
                 THEN [st EXCEPT !.seg = seg, !.calls = calls, !.exit = o.exit]
                 ELSE IF seg[line.num] # Absent
                 THEN ExtractLoop(i + 1,
                          [st EXCEPT !.seg = seg,
                                     !.list = Append(st.list, line.num),
                                     !.calls = calls],
                          enc, recording_us)
                 ELSE ExtractLoop(i + 1,
                          [st EXCEPT !.seg = seg, !.calls = calls],
                          enc, recording_us)

\* ffmpeg -f concat -c copy: the segment files named by the list, in list order.
ConcatTrack(list, seg) ==
    [k \in 1..Len(list) |-> [num |-> list[k], us |-> seg[list[k]]]]

\* The mix loop of finalize (for i in $(seq 1 $clip_count)) from clip i on:
\* plan is the adelay filters emitted so far, one per audio input, and
\* cumulative_offset_ms the delay of the next one.
RECURSIVE MixLoop(_, _, _, _, _, _)
\* Variant: the measured duration subtracted from the running delay.
MixLoopMutSubtract(i, count, mp3, seg, plan, cumulative_offset_ms) ==
    IF i > count THEN plan
    ELSE IF i \in mp3 /\ seg[i] # Absent
    THEN LET input_num == Len(plan) + 1
             segment_duration_ms == RoundUsToMs(seg[i])
         IN  MixLoop(i + 1, count, mp3, seg,
                     Append(plan, [input |-> input_num, clip |-> i,
                                   delay |-> cumulative_offset_ms]),
                     cumulative_offset_ms - segment_duration_ms)
    ELSE MixLoop(i + 1, count, mp3, seg, plan, cumulative_offset_ms)
\* Variant: the delay advanced before the clip is added.
MixLoopMutDelayAfter(i, count, mp3, seg, plan, cumulative_offset_ms) ==
    IF i > count THEN plan
    ELSE IF i \in mp3 /\ seg[i] # Absent
    THEN LET input_num == Len(plan) + 1
             next == cumulative_offset_ms + RoundUsToMs(seg[i])
         IN  MixLoop(i + 1, count, mp3, seg,
                     Append(plan, [input |-> input_num, clip |-> i,
                                   delay |-> next]),
                     next)
    ELSE MixLoop(i + 1, count, mp3, seg, plan, cumulative_offset_ms)
MixLoop(i, count, mp3, seg, plan, cumulative_offset_ms) ==
    IF i > count THEN plan
    ELSE IF i \in mp3 /\ seg[i] # Absent
    THEN LET input_num == Len(plan) + 1
             segment_duration_ms == RoundUsToMs(seg[i])
         IN  MixLoop(i + 1, count, mp3, seg,
                     Append(plan, [input |-> input_num, clip |-> i,
                                   delay |-> cumulative_offset_ms]),
                     cumulative_offset_ms + segment_duration_ms)
    ELSE MixLoop(i + 1, count, mp3, seg, plan, cumulative_offset_ms)

\* The guards of cmd_finalize before it touches the session directory.
\* Variant: cmd_finalize without the clip_count guard.
FinalizeErrorMutNoClipCheck ==
    IF NoSession THEN "No active session"
    ELSE IF recording_webm = Absent THEN "No recording found"
    ELSE ""
\* Variant: cmd_finalize without the recording guard.
FinalizeErrorMutNoRecordingCheck ==
    IF NoSession THEN "No active session"
    ELSE IF clip_count = 0 THEN "No clips found"
    ELSE ""
FinalizeError ==
    IF NoSession THEN "No active session"
    ELSE IF recording_webm = Absent THEN "No recording found"
    ELSE IF clip_count = 0 THEN "No clips found"
    ELSE ""
FinalizeRefused == FinalizeError # ""

\* Whether the concat step leaves a concat.mp4: the external tool cannot build a
\* track from an empty list, and otherwise exits with concat_exit.
\* Variant: a concat step that accepts an empty list.
ConcatOkMutAcceptEmpty(list, concat_exit) == concat_exit = 0
ConcatOk(list, concat_exit) == Len(list) > 0 /\ concat_exit = 0

\* cmd_finalize, the whole command. enc, concat_exit and mix_exit are what the
\* external tool does on each call.
cmd_finalize(enc, concat_exit, mix_exit) ==
    /\ impl = "sh"
    /\ IF FinalizeRefused
       THEN /\ run' = RunOf(1, FinalizeError)
            /\ UNCHANGED shFiles
       ELSE
       LET st == ExtractLoop(1, [seg |-> segment_mp4, list |-> <<>>,
                                 calls |-> <<>>, exit |-> 0],
                             enc, recording_webm)
           track == ConcatTrack(st.list, st.seg)
           plan == MixLoop(1, clip_count, clip_mp3, st.seg, <<>>, 0)
           num_audio == Len(plan)
           log == [RunOf(0, "") EXCEPT !.list = st.list,
                                                  !.calls = st.calls]
       IN
       IF st.exit # 0
       THEN \* set -e: the encoder's exit code ends the script inside the loop
            /\ segment_mp4' = st.seg
            /\ concat_list' = TRUE
            /\ run' = [log EXCEPT !.exit = st.exit, !.stages = <<"extract">>]
            /\ UNCHANGED <<concat_mp4, output_mp4>>
       ELSE IF ~ConcatOk(st.list, concat_exit)
       THEN /\ segment_mp4' = st.seg
            /\ concat_list' = TRUE
            /\ run' = [log EXCEPT !.exit = 1, !.stages = <<"extract", "concat">>]
            /\ UNCHANGED <<concat_mp4, output_mp4>>
       ELSE IF num_audio > 0 /\ mix_exit # 0
       THEN \* set -e: the mix call fails before the cleanup
            /\ segment_mp4' = st.seg
            /\ concat_list' = TRUE
            /\ concat_mp4' = TRUE
            /\ run' = [log EXCEPT !.exit = mix_exit,
                                  !.stages = <<"extract", "concat", "mix">>]
            /\ UNCHANGED output_mp4
       ELSE /\ output_mp4' = TRUE
            /\ segment_mp4' = [n \in FileNums |-> Absent]
            /\ concat_list' = FALSE
            /\ concat_mp4' = FALSE
            /\ run' = [log EXCEPT
                         !.stages = <<"extract", "concat",
                                      IF num_audio > 0 THEN "mix" ELSE "copy",
                                      "cleanup">>,
                         !.video = track,
                         !.audio = plan,
                         !.inputs = num_audio]
    /\ UNCHANGED <<timingVars, impl, now, ticks, jsVars, session_id, clip_count, marks, recording_start_ms,
                   clip_duration_ms, clip_mp3, recording_webm>>

\* cmd_upload without an argument: the session's output.mp4, which must exist.
\* url_ok is whether the hosting service answers the create-upload call with a
\* URL.
cmd_upload(url_ok) ==
    /\ impl = "sh"
    /\ output_mp4
    /\ run' = IF url_ok THEN [RunOf(0, "") EXCEPT !.stages = <<"upload">>]
               ELSE [RunOf(1, "Error creating upload") EXCEPT !.stages = <<"upload">>]
    /\ UNCHANGED <<timingVars, impl, now, ticks, jsVars, shFiles>>

\* ------------------------------------------- index.js createNarratedRecording

\* A throw inside the try block: control goes to the catch clause, which will
\* report stage.
Throw(stage) ==
    /\ pc' = "catch"
    /\ run' = [run EXCEPT !.err = stage]

\* What the encoder writes for the window [start, start + duration] of a
\* recording of recording_us: the window re-encoded, or what is left of the
\* recording when the window runs past its end.
EncodedUs(start_sec, duration_sec, recording_us, drift) ==
    IF Sec3ToUs(AddSec3(start_sec, duration_sec)) <= recording_us
    THEN Sec3ToUs(duration_sec) + drift
    ELSE IF recording_us > Sec3ToUs(start_sec)
    THEN recording_us - Sec3ToUs(start_sec)
    ELSE 0

\* Variant: the research browser is left open.
ResearchCallsMutNoClose(n) == <<"open">> \o [k \in 1..n |-> "narrate"]

\* The external calls of the research pass for n pages: the browser is opened,
\* generateNarration is called once per page, the browser is closed.
ResearchCalls(n) == <<"open">> \o [k \in 1..n |-> "narrate"] \o <<"close">>

\* The external calls that start the performance pass.
PerformCalls == <<"open", "record start">>

\* The external calls that end the performance pass.
StopCalls == <<"record stop", "close">>

\* Variant: the catch clause rethrows without touching the browser.
CatchCallsMutNoClose == <<>>

\* The external calls of the catch clause.
CatchCalls == <<"close">>

\* The tool call arrives: sessionDir is made, clips and pageData are empty.
js_call(n) ==
    /\ impl = "js"
    /\ pc = "idle"
    /\ pages' = n
    /\ pc' = "research"
    /\ UNCHANGED <<callLog, sleeps, timingVars, impl, now, ticks, shVars, pageData, clips, page_i, segIdx,
                   segmentStartTime, browser, recording>>

\* The research pass: open, then per page navigate, snapshot and narration, then
\* close. pages[0].url of an empty list throws before the browser is opened.
js_research(throws) ==
    /\ impl = "js"
    /\ pc = "research"
    /\ IF pages = 0 \/ throws
       THEN /\ Throw("research")
            /\ browser' = IF pages = 0 THEN "closed" ELSE "open"
            /\ callLog' = IF pages = 0 THEN callLog ELSE callLog \o <<"open">>
            /\ UNCHANGED <<now, pageData, page_i>>
       ELSE /\ pageData' = pages
            /\ now' = now + ResearchOpenSleepMs
                          + (pages - 1) * ResearchNavSleepMs
                          + ResearchCloseSleepMs
            /\ browser' = "closed"
            /\ callLog' = callLog \o ResearchCalls(pages)
            /\ page_i' = 1
            /\ pc' = "audio"
            /\ run' = run
    /\ UNCHANGED <<sleeps, timingVars, impl, ticks, session_id, clip_count, marks, recording_start_ms,
                   clip_duration_ms, clip_mp3, recording_webm, segment_mp4,
                   concat_list, concat_mp4, output_mp4, pages, clips, segIdx,
                   segmentStartTime, recording>>

\* One iteration of the audio loop: generateAudio for page page_i.
js_audio(sample, throws) ==
    /\ impl = "js"
    /\ pc = "audio"
    /\ IF throws
       THEN /\ Throw("audio")
            /\ callLog' = Append(callLog, "tts")
            /\ UNCHANGED <<clips, clip_mp3, page_i>>
       ELSE /\ clips' = Append(clips, [clipNum |-> page_i,
                                       durationMs |-> sample.durationMs,
                                       segmentTimings |-> sample.segmentTimings])
            /\ clip_mp3' = clip_mp3 \cup {page_i}
            /\ callLog' = Append(callLog, "tts")
            /\ page_i' = IF page_i < pageData THEN page_i + 1 ELSE 1
            /\ pc' = IF page_i < pageData THEN "audio" ELSE "perform"
            /\ run' = run
    /\ UNCHANGED <<sleeps, timingVars, impl, now, ticks, session_id, clip_count, marks,
                   recording_start_ms, clip_duration_ms, recording_webm,
                   segment_mp4, concat_list, concat_mp4, output_mp4, pages,
                   pageData, segIdx, segmentStartTime, browser, recording>>

\* Start of the performance pass: viewport, first page, record start, then
\* recordingStartMs = Date.now() and marks = [].
js_perform(throws, lat) ==
    /\ impl = "js"
    /\ pc = "perform"
    /\ IF throws
       THEN /\ Throw("perform")
            /\ browser' = "open"
            /\ callLog' = Append(callLog, "open")
            /\ UNCHANGED <<now, recording, recording_start_ms, marks>>
       ELSE /\ browser' = "open"
            /\ callLog' = callLog \o PerformCalls
            /\ recording' = TRUE
            /\ now' = now + lat + PerformOpenSleepMs
            /\ recording_start_ms' = now'
            /\ marks' = <<>>
            /\ pc' = "page"
            /\ run' = run
    /\ UNCHANGED <<sleeps, timingVars, impl, ticks, session_id, clip_count, clip_duration_ms, clip_mp3,
                   recording_webm, segment_mp4, concat_list, concat_mp4,
                   output_mp4, pages, pageData, clips, page_i, segIdx,
                   segmentStartTime>>

\* Variant: the page loop ends after its first iteration.
NextPagePcMutStopEarly == "stop"

\* Where the page loop goes after page page_i.
NextPagePc == IF page_i < pageData THEN "page" ELSE "stop"
NextPageI == IF page_i < pageData THEN page_i + 1 ELSE page_i

\* Variant: the mark holds the clock's reading itself.
OffsetMsMutAbsolute(t, startMs) == t

\* const offsetMs = Date.now() - recordingStartMs.
OffsetMs(t, startMs) == t - startMs

\* One iteration of the page loop up to the cue loop: navigate (not for the first
\* page), push the mark, then the two evals (lat), and in the fallback branch
\* sleep for the clip's duration.
js_page(throws, lat) ==
    /\ impl = "js"
    /\ pc = "page"
    /\ LET clip == clips[page_i]
           arrived == IF page_i > 1 THEN now + lat + PerformNavSleepMs ELSE now
           offsetMs == OffsetMs(arrived, recording_start_ms)
           ready == arrived + lat
       IN
       IF throws
       THEN /\ Throw("perform")
            /\ UNCHANGED <<now, marks, page_i, segIdx, segmentStartTime, sleeps>>
       ELSE /\ marks' = Append(marks, MarkLine(clip.clipNum, offsetMs, clip.durationMs))
            /\ run' = run
            /\ IF Len(clip.segmentTimings) > 0
               THEN /\ now' = ready
                    /\ segmentStartTime' = ready
                    /\ segIdx' = 1
                    /\ pc' = "cue"
                    /\ sleeps' = <<>>
                    /\ UNCHANGED page_i
               ELSE /\ now' = ready + clip.durationMs
                    /\ sleeps' = <<clip.durationMs>>
                    /\ pc' = NextPagePc
                    /\ page_i' = NextPageI
                    /\ UNCHANGED <<segIdx, segmentStartTime>>
    /\ UNCHANGED <<callLog, timingVars, impl, ticks, session_id, clip_count, recording_start_ms,
                   clip_duration_ms, clip_mp3, recording_webm, segment_mp4,
                   concat_list, concat_mp4, output_mp4, pages, pageData, clips,
                   browser, recording>>

\* Variant: a fixed wait per step, the target itself, whatever time has elapsed.
WaitMsMutFixedStep(targetMs, elapsedMs) == targetMs

\* Variant: the elapsed time added to the target instead of subtracted.
WaitMsMutAdd(targetMs, elapsedMs) == targetMs + elapsedMs

\* segment.startTimeMs - elapsedMs / clip.durationMs - totalElapsed: the time
\* left until a target given the time elapsed since segmentStartTime.
WaitMs(targetMs, elapsedMs) == targetMs - elapsedMs

\* Variant: the wait is computed and no sleep is made.
SleepIfPositiveMutNever(waitMs) == <<>>

\* Variant: sleep is called with the computed wait whatever its sign.
SleepIfPositiveMutUnguarded(waitMs) == <<waitMs>>

\* if (waitMs > 0) await sleep(waitMs): the sleep calls made, by argument.
SleepIfPositive(waitMs) == IF waitMs > 0 THEN <<waitMs>> ELSE <<>>

\* The time the calls suspend the function for.
SleptMs(calls) == IF calls = <<>> THEN 0 ELSE calls[1]

\* One iteration of the cue loop: wait until the cue's start time, then scroll.
\* A failing scroll to "top" or "bottom" throws; a failing scroll to a ref is
\* caught and logged.
js_cue(lat, ok) ==
    /\ impl = "js"
    /\ pc = "cue"
    /\ LET clip == clips[page_i]
           segment == clip.segmentTimings[segIdx]
           elapsedMs == now - segmentStartTime
           waitMs == WaitMs(segment.startTimeMs, elapsedMs)
           caught == segment.scrollTo \notin {"top", "bottom"}
       IN
       /\ sleeps' = sleeps \o SleepIfPositive(waitMs)
       /\ now' = now + SleptMs(SleepIfPositive(waitMs)) + lat
       /\ IF ~ok /\ ~caught
          THEN /\ Throw("perform")
               /\ UNCHANGED segIdx
          ELSE /\ run' = run
               /\ IF segIdx < Len(clip.segmentTimings)
                  THEN /\ segIdx' = segIdx + 1
                       /\ pc' = "cue"
                  ELSE /\ segIdx' = segIdx
                       /\ pc' = "remaining"
    /\ UNCHANGED <<callLog, timingVars, impl, ticks, session_id, clip_count, marks, recording_start_ms,
                   clip_duration_ms, clip_mp3, recording_webm, segment_mp4,
                   concat_list, concat_mp4, output_mp4, pages, pageData, clips,
                   page_i, segmentStartTime, browser, recording>>

\* After the last cue: wait for the rest of the audio duration.
js_remaining ==
    /\ impl = "js"
    /\ pc = "remaining"
    /\ LET clip == clips[page_i]
           totalElapsed == now - segmentStartTime
           remainingMs == WaitMs(clip.durationMs, totalElapsed)
       IN  /\ sleeps' = sleeps \o SleepIfPositive(remainingMs)
           /\ now' = now + SleptMs(SleepIfPositive(remainingMs))
    /\ pc' = NextPagePc
    /\ page_i' = NextPageI
    /\ UNCHANGED <<callLog, timingVars, impl, ticks, shVars, pages, pageData, clips, segIdx,
                   segmentStartTime, browser, recording>>

\* record stop, close, the one-second wait and the write of marks.txt. loss is
\* what the recorder's file lacks of the wall-clock time recorded.
js_stop(throws, loss) ==
    /\ impl = "js"
    /\ pc = "stop"
    /\ IF throws
       THEN /\ Throw("stop")
            /\ callLog' = Append(callLog, "record stop")
            /\ UNCHANGED <<now, browser, recording, recording_webm>>
       ELSE /\ recording' = FALSE
            /\ callLog' = callLog \o StopCalls
            /\ browser' = "closed"
            /\ recording_webm' = (now - recording_start_ms) * 1000 - loss
            /\ now' = now + StopSleepMs
            /\ pc' = "post"
            /\ run' = run
    /\ UNCHANGED <<sleeps, timingVars, impl, ticks, session_id, clip_count, marks, recording_start_ms,
                   clip_duration_ms, clip_mp3, segment_mp4, concat_list,
                   concat_mp4, output_mp4, pages, pageData, clips, page_i, segIdx,
                   segmentStartTime>>

\* The extraction loop of createNarratedRecording (for (const mark of marks))
\* from mark i on. execSync throws on a non-zero exit, which ends the loop.
RECURSIVE JsExtractLoop(_, _, _, _)
JsExtractLoop(i, st, enc, recording_us) ==
    IF i > Len(marks) \/ st.exit # 0 THEN st
    ELSE LET mark == marks[i]
             startSec == MsToSec3(mark.start_ms)
             durationSec == MsToSec3(mark.duration_ms)
             o == enc[i]
             measured == EncodedUs(startSec, durationSec, recording_us, o.drift)
             call == [num |-> mark.num, exit |-> o.exit, wrote |-> o.wrote,
                     us |-> IF o.wrote THEN measured ELSE 0]
             calls == Append(st.calls, call)
         IN  IF o.exit # 0
             THEN [st EXCEPT !.calls = calls, !.exit = o.exit]
             ELSE JsExtractLoop(i + 1,
                      [st EXCEPT !.seg = [st.seg EXCEPT ![mark.num] = measured],
                                 !.list = Append(st.list, mark.num),
                                 !.calls = calls],
                      enc, recording_us)

\* The mix loop of createNarratedRecording (for i < clips.length) from clip i on.
RECURSIVE JsMixLoop(_, _, _, _)
JsMixLoop(i, seg, plan, cumulativeOffsetMs) ==
    IF i > Len(clips) THEN plan
    ELSE LET clip == clips[i]
             inputNum == i
         IN  JsMixLoop(i + 1, seg,
                       Append(plan, [input |-> inputNum, clip |-> clip.clipNum,
                                     delay |-> cumulativeOffsetMs]),
                       cumulativeOffsetMs + RoundUsToMs(seg[clip.clipNum]))

\* Post-processing, which runs without an await: extraction, concat list,
\* concatenation, mix plan and merge. Each external call that exits non-zero
\* throws.
js_post(enc, concat_exit, mix_exit) ==
    /\ impl = "js"
    /\ pc = "post"
    /\ LET st == JsExtractLoop(1, [seg |-> segment_mp4, list |-> <<>>,
                                   calls |-> <<>>, exit |-> 0],
                               enc, recording_webm)
           track == ConcatTrack(st.list, st.seg)
           plan == JsMixLoop(1, st.seg, <<>>, 0)
           log == [RunOf(0, "") EXCEPT !.list = st.list, !.calls = st.calls]
       IN
       /\ segment_mp4' = st.seg
       /\ IF st.exit # 0
          THEN /\ pc' = "catch"
               /\ run' = [log EXCEPT !.err = "extract", !.stages = <<"extract">>]
               /\ UNCHANGED <<concat_list, concat_mp4, output_mp4>>
          ELSE IF ~ConcatOk(st.list, concat_exit)
          THEN /\ pc' = "catch"
               /\ concat_list' = TRUE
               /\ run' = [log EXCEPT !.err = "concat",
                                     !.stages = <<"extract", "concat">>]
               /\ UNCHANGED <<concat_mp4, output_mp4>>
          ELSE IF mix_exit # 0
          THEN /\ pc' = "catch"
               /\ concat_list' = TRUE
               /\ concat_mp4' = TRUE
               /\ run' = [log EXCEPT !.err = "mix",
                                     !.stages = <<"extract", "concat", "mix">>]
               /\ UNCHANGED output_mp4
          ELSE /\ pc' = "upload"
               /\ concat_list' = TRUE
               /\ concat_mp4' = TRUE
               /\ output_mp4' = TRUE
               /\ run' = [log EXCEPT !.stages = <<"extract", "concat", "mix">>,
                                     !.video = track,
                                     !.audio = plan,
                                     !.inputs = Len(clips)]
    /\ UNCHANGED <<callLog, sleeps, timingVars, impl, now, ticks, session_id, clip_count, marks,
                   recording_start_ms, clip_duration_ms, clip_mp3, recording_webm,
                   pages, pageData, clips, page_i, segIdx, segmentStartTime,
                   browser, recording>>

\* uploadToMux, then the cleanup of the intermediate files and the result.
js_upload(ok) ==
    /\ impl = "js"
    /\ pc = "upload"
    /\ IF ok
       THEN /\ pc' = "done"
            /\ segment_mp4' = [n \in FileNums |->
                                 IF \E i \in 1..Len(marks) : marks[i].num = n
                                 THEN Absent ELSE segment_mp4[n]]
            /\ concat_list' = FALSE
            /\ concat_mp4' = FALSE
            /\ run' = [run EXCEPT !.stages = run.stages \o <<"upload", "cleanup">>]
       ELSE /\ pc' = "catch"
            /\ run' = [run EXCEPT !.err = "upload",
                                  !.stages = run.stages \o <<"upload">>]
            /\ UNCHANGED <<segment_mp4, concat_list, concat_mp4>>
    /\ UNCHANGED <<callLog, sleeps, timingVars, impl, now, ticks, session_id, clip_count, marks,
                   recording_start_ms, clip_duration_ms, clip_mp3, recording_webm,
                   output_mp4, pages, pageData, clips, page_i, segIdx,
                   segmentStartTime, browser, recording>>

\* Variant: the catch clause swallows the error and the call ends normally.
RethrownMutSwallowed(r) == r

\* throw error, and the handler's answer { error: error.message } with isError:
\* the report keeps the error and gets a failing exit.
Rethrown(r) == [r EXCEPT !.exit = 1]

\* The catch clause: try to close the browser, then rethrow; the tool handler
\* answers with isError.
js_catch(close_ok) ==
    /\ impl = "js"
    /\ pc = "catch"
    /\ browser' = IF close_ok THEN "closed" ELSE browser
    /\ callLog' = callLog \o CatchCalls
    /\ run' = Rethrown(run)
    /\ pc' = "done"
    /\ UNCHANGED <<sleeps, timingVars, impl, now, ticks, session_id, clip_count, marks,
                   recording_start_ms, clip_duration_ms, clip_mp3, recording_webm,
                   segment_mp4, concat_list, concat_mp4, output_mp4, pages,
                   pageData, clips, page_i, segIdx, segmentStartTime, recording>>

\* ----------------------------------------- index.js calculateSegmentTimings

\* undefined (charStartTimes[-1] of an empty array) and the NaN that
\* Math.round(undefined * 1000) gives.
Undefined == -1
NaN == -2

\* Math.round(t * 1000) of a time in seconds.
RoundSecToMs(us) == IF us = Undefined THEN NaN ELSE RoundUsToMs(us)

\* The loop of calculateSegmentTimings from segment i on (i counts from 1, the
\* character offsets from 0 as in the code).
RECURSIVE TimingLoop(_, _, _, _, _)
\* Variant: the offset advanced without the joining space.
TimingLoopMutNoSpace(segs, times, i, charOffset, out) ==
    IF i > Len(segs) THEN out
    ELSE LET segment == segs[i]
             startTime == IF charOffset < Len(times) THEN times[charOffset + 1]
                          ELSE 0
             endCharOffset == charOffset + segment.len
             endTime == IF endCharOffset < Len(times) THEN times[endCharOffset + 1]
                        ELSE IF Len(times) > 0 THEN times[Len(times)]
                        ELSE Undefined
         IN  TimingLoop(segs, times, i + 1, endCharOffset,
                        Append(out, [scrollTo |-> segment.scrollTo,
                                     startTimeSec |-> startTime,
                                     endTimeSec |-> endTime,
                                     startTimeMs |-> RoundSecToMs(startTime),
                                     endTimeMs |-> RoundSecToMs(endTime)]))
\* Variant: the end time taken at the last character of the segment.
TimingLoopMutEndInside(segs, times, i, charOffset, out) ==
    IF i > Len(segs) THEN out
    ELSE LET segment == segs[i]
             startTime == IF charOffset < Len(times) THEN times[charOffset + 1]
                          ELSE 0
             endCharOffset == charOffset + segment.len
             endTime == IF endCharOffset <= Len(times) /\ endCharOffset > 0
                        THEN times[endCharOffset]
                        ELSE IF Len(times) > 0 THEN times[Len(times)]
                        ELSE Undefined
         IN  TimingLoop(segs, times, i + 1, endCharOffset + 1,
                        Append(out, [scrollTo |-> segment.scrollTo,
                                     startTimeSec |-> startTime,
                                     endTimeSec |-> endTime,
                                     startTimeMs |-> RoundSecToMs(startTime),
                                     endTimeMs |-> RoundSecToMs(endTime)]))
TimingLoop(segs, times, i, charOffset, out) ==
    IF i > Len(segs) THEN out
    ELSE LET segment == segs[i]
             startTime == IF charOffset < Len(times) THEN times[charOffset + 1]
                          ELSE 0
             endCharOffset == charOffset + segment.len
             endTime == IF endCharOffset < Len(times) THEN times[endCharOffset + 1]
                        ELSE IF Len(times) > 0 THEN times[Len(times)]
                        ELSE Undefined
         IN  TimingLoop(segs, times, i + 1, endCharOffset + 1,
                        Append(out, [scrollTo |-> segment.scrollTo,
                                     startTimeSec |-> startTime,
                                     endTimeSec |-> endTime,
                                     startTimeMs |-> RoundSecToMs(startTime),
                                     endTimeMs |-> RoundSecToMs(endTime)]))

calculateSegmentTimings(segs, times) == TimingLoop(segs, times, 1, 0, <<>>)

\* The call made by generateAudio, which passes a non-empty segment list.
timings_call ==
    /\ impl = "fn"
    /\ segmentTimings = <<>>
    /\ segmentTimings' = calculateSegmentTimings(segments, charStartTimes)
    /\ UNCHANGED <<impl, now, ticks, shVars, jsVars, segments, charStartTimes>>

\* A segment whose text has len characters.
Segment(len) == [len |-> len, scrollTo |-> "ref"]

\* Lengths of segment texts, and the timestamps of the provider, microseconds.
SegmentLens == {0, 1, 2}
CharTimesUs == {0, 300400, 700600}

\* Segment lists of 1..MaxSegs segments.
SegmentLists ==
    UNION {[1..n -> {Segment(l) : l \in SegmentLens}] : n \in 1..MaxSegs}

\* Non-decreasing timestamp arrays of 0..MaxChars entries.
CharTimeArrays ==
    UNION {{a \in [1..n -> CharTimesUs] :
               \A j, k \in 1..n : j <= k => a[j] <= a[k]} : n \in 0..MaxChars}

\* Two segments of 12 and 8 characters ("Hello world." and "Goodbye.") with one
\* timestamp per character of the joined text, 50 ms apart.
ExampleSegments == <<Segment(12), Segment(8)>>
ExampleTimes == [k \in 1..21 |-> (k - 1) * 50000]

\* ------------------------------------------------------------ specification

Idle ==
    /\ now = 0
    /\ ticks = 0
    /\ session_id = Absent
    /\ clip_count = 0
    /\ marks = <<>>
    /\ recording_start_ms = Absent
    /\ clip_duration_ms = [n \in FileNums |-> Absent]
    /\ clip_mp3 = {}
    /\ recording_webm = Absent
    /\ segment_mp4 = [n \in FileNums |-> Absent]
    /\ concat_list = FALSE
    /\ concat_mp4 = FALSE
    /\ output_mp4 = FALSE
    /\ run = RunOf(0, "")
    /\ pc = "idle"
    /\ pages = 0
    /\ pageData = 0
    /\ clips = <<>>
    /\ page_i = 0
    /\ segIdx = 0
    /\ segmentStartTime = 0
    /\ sleeps = <<>>
    /\ callLog = <<>>
    /\ browser = "closed"
    /\ recording = FALSE

Init ==
    /\ impl \in {"sh", "js"}
    /\ Idle
    /\ segments = <<>>
    /\ charStartTimes = <<>>
    /\ segmentTimings = <<>>

SessionInit == \E elapsed \in ElapsedMs : cmd_init(elapsed)
Audio == \E n \in ClipNums, d \in AudioDurationsMs : cmd_audio(n, d)
Start == \E elapsed \in ElapsedMs : cmd_start(elapsed)
Mark == \E n \in ClipNums, elapsed \in ElapsedMs : cmd_mark(n, elapsed)
Video == \E found \in RecordingDurationsUs : cmd_video(found)

\* The mark lines whose window lies inside the recording: the encoder runs for
\* these.
EncIdx ==
    {i \in MarkIdx :
        is_valid(AddSec3(MsToSec3(marks[i].start_ms), MsToSec3(marks[i].duration_ms)),
                 recording_webm)}

\* What the external tool does during one finalize. Calls that are never made
\* (after the call that ends the script) have no outcome to choose.
FinalizeInputs ==
    {in \in [enc : [EncIdx -> EncOutcomes], concat_exit : {0, 1}, mix_exit : {0, 1}] :
        LET failed == {i \in EncIdx : in.enc[i].exit # 0} IN
        /\ Cardinality(failed) <= 1
        /\ failed # {} => (in.concat_exit = 0 /\ in.mix_exit = 0)
        /\ \A i \in failed, j \in EncIdx : j > i => in.enc[j].exit = 0
        /\ in.concat_exit # 0 => in.mix_exit = 0}

Finalize ==
    \/ /\ FinalizeRefused
       /\ cmd_finalize(<<>>, 0, 0)
    \/ /\ ~FinalizeRefused
       /\ \E in \in FinalizeInputs :
              cmd_finalize(in.enc, in.concat_exit, in.mix_exit)
Upload == \E url_ok \in BOOLEAN : cmd_upload(url_ok)

\* What the external tool does during one post-processing run.
JsPostInputs ==
    {in \in [enc : [1..Len(marks) -> EncOutcomes], concat_exit : {0, 1},
             mix_exit : {0, 1}] :
        LET failed == {i \in 1..Len(marks) : in.enc[i].exit # 0} IN
        /\ Cardinality(failed) <= 1
        /\ failed # {} => (in.concat_exit = 0 /\ in.mix_exit = 0)
        /\ \A i \in failed, j \in 1..Len(marks) : j > i => in.enc[j].exit = 0
        /\ in.concat_exit # 0 => in.mix_exit = 0}

JsCall == \E n \in 0..MaxPages : js_call(n)
JsResearch == \E throws \in BOOLEAN : js_research(throws)
JsAudio == \E sample \in ClipSamples, throws \in BOOLEAN : js_audio(sample, throws)
JsPerform == \E throws \in BOOLEAN, lat \in BrowserLatenciesMs : js_perform(throws, lat)
JsPage == \E throws \in BOOLEAN, lat \in BrowserLatenciesMs : js_page(throws, lat)
JsCue == \E lat \in BrowserLatenciesMs, ok \in BOOLEAN : js_cue(lat, ok)
JsStop == \E throws \in BOOLEAN, loss \in RecorderLossUs : js_stop(throws, loss)
JsPost == \E in \in JsPostInputs : js_post(in.enc, in.concat_exit, in.mix_exit)
JsUpload == \E ok \in BOOLEAN : js_upload(ok)
JsCatch == \E close_ok \in BOOLEAN : js_catch(close_ok)

Next ==
    \/ SessionInit
    \/ Start
    \/ Audio
    \/ Mark
    \/ Video
    \/ Finalize
    \/ Upload
    \/ JsCall
    \/ JsResearch
    \/ JsAudio
    \/ JsPerform
    \/ JsPage
    \/ JsCue
    \/ js_remaining
    \/ JsStop
    \/ JsPost
    \/ JsUpload
    \/ JsCatch

Spec == Init /\ [][Next]_vars

\* createNarratedRecording alone, with the scheduling the runtime gives it: a
\* timer set by sleep fires (setTimeout, index.js 57-59) and a browser call
\* returns or throws within its timeout (execSync, 25-29), so a step of the
\* page loop that can be taken is taken.
InitScheduler == Init /\ impl = "js"

\* The clips of the scheduler's runs: the ones above and a three-second clip
\* with the same cues, which leaves a remaining-time wait longer than the
\* navigation wait between pages.
SchedulerSamples ==
    ClipSamples \cup
    {[durationMs |-> 3000,
      segmentTimings |-> <<Cue(0, "top"), Cue(800, "ref"), Cue(900, "bottom")>>]}

SchedulerAudio ==
    \E sample \in SchedulerSamples, throws \in BOOLEAN : js_audio(sample, throws)

NextScheduler ==
    \/ JsCall
    \/ JsResearch
    \/ SchedulerAudio
    \/ JsPerform
    \/ JsPage
    \/ JsCue
    \/ js_remaining
    \/ JsStop
    \/ JsPost
    \/ JsUpload
    \/ JsCatch

SpecScheduler ==
    /\ InitScheduler
    /\ [][NextScheduler]_vars
    /\ WF_vars(JsPage)
    /\ WF_vars(JsCue)
    /\ WF_vars(js_remaining)

\* One call of calculateSegmentTimings on inputs drawn from the sets above.
InitTimings ==
    /\ impl = "fn"
    /\ Idle
    /\ \/ /\ segments \in SegmentLists
          /\ charStartTimes \in CharTimeArrays
       \/ /\ segments = ExampleSegments
          /\ charStartTimes = ExampleTimes
    /\ segmentTimings = <<>>

NextTimings == timings_call

SpecTimings == InitTimings /\ [][NextTimings]_vars

\* narrator.sh sessions in which audio is run again for a clip number, with a
\* second duration.
RerunAudio == \E n \in ClipNums, d \in RerunDurationsMs : cmd_audio(n, d)

InitRerun == Init /\ impl = "sh"

NextRerun ==
    \/ SessionInit
    \/ Start
    \/ RerunAudio
    \/ Mark
    \/ Video
    \/ Finalize

SpecRerun == InitRerun /\ [][NextRerun]_vars

\* narrator.sh init / start / audio / mark when the speech provider may answer
\* without character end times (alignment null or empty, or an empty answer):
\* jq prints null, awk turns it into 0 and clip_<n>_duration_ms.txt holds "0".
ProviderDurationsMs == {0} \cup AudioDurationsMs

ProviderAudio == \E n \in ClipNums, d \in ProviderDurationsMs : cmd_audio(n, d)

InitProvider == Init /\ impl = "sh"

NextProvider ==
    \/ SessionInit
    \/ Start
    \/ ProviderAudio
    \/ Mark

SpecProvider == InitProvider /\ [][NextProvider]_vars

\* Finalize of a session whose marks.txt was written or edited by other means:
\* the session of init, start, audio 1, audio 2 (all within the first second)
\* with any file of up to MaxLines lines, among them comments, empty lines and
\* lines of one or two fields.
FileLines ==
    {CommentLine, EmptyLine, TextLine(1, Absent, Absent), TextLine(1, 0, Absent),
     MarkLine(1, 0, 1000), MarkLine(2, 1000, 1000)}

MarkFiles == UNION {[1..n -> FileLines] : n \in 1..MaxLines}

InitMarksFile ==
    /\ impl = "sh"
    /\ now = 0
    /\ ticks = 0
    /\ session_id = SessionIdAt(0)
    /\ clip_count = 2
    /\ marks \in MarkFiles
    /\ recording_start_ms = 0
    /\ clip_duration_ms = [n \in FileNums |-> IF n \in {1, 2} THEN 1000 ELSE Absent]
    /\ clip_mp3 = {1, 2}
    /\ recording_webm = Absent
    /\ segment_mp4 = [n \in FileNums |-> Absent]
    /\ concat_list = FALSE
    /\ concat_mp4 = FALSE
    /\ output_mp4 = FALSE
    /\ run = RunOf(0, "")
    /\ pc = "idle"
    /\ pages = 0
    /\ pageData = 0
    /\ clips = <<>>
    /\ page_i = 0
    /\ segIdx = 0
    /\ segmentStartTime = 0
    /\ sleeps = <<>>
    /\ callLog = <<>>
    /\ browser = "closed"
    /\ recording = FALSE
    /\ segments = <<>>
    /\ charStartTimes = <<>>
    /\ segmentTimings = <<>>

NextMarksFile ==
    \/ Video
    \/ Finalize

SpecMarksFile == InitMarksFile /\ [][NextMarksFile]_vars

\* --------------------------------------------------------------------- claims

\* A step that is a run of finalize, refused or not.
FinalizeStep ==
    /\ impl = "sh"
    /\ UNCHANGED <<now, marks, clip_count, clip_mp3, recording_webm>>
    /\ IF FinalizeRefused
       THEN cmd_finalize(<<>>, 0, 0)
       ELSE /\ run'.stages # <<>>
            /\ Head(run'.stages) = "extract"
            /\ \E in \in FinalizeInputs :
                   cmd_finalize(in.enc, in.concat_exit, in.mix_exit)

\* run is the report of an extraction: of a finalize that was not refused, or
\* of post-processing. Every narrator.sh command replaces run, and nothing
\* changes the marks or the recording of createNarratedRecording after
\* post-processing, so in such a state the mark log and the recording are the
\* ones the extraction read.
Extracted == run.stages # <<>> /\ Head(run.stages) = "extract"

InStages(r, stage) == \E k \in 1..Len(r.stages) : r.stages[k] = stage
NoFailedCall(r) == \A k \in 1..Len(r.calls) : r.calls[k].exit = 0
Nums(s) == [k \in 1..Len(s) |-> s[k].num]

\* The marks of the log in insertion order, and whether a mark's window
\* offsetMs + durationMs lies inside the raw recording.
MarkLines == SelectSeq(marks, LAMBDA m : m.kind = "mark")
InWindow(m) == (m.start_ms + m.duration_ms) * 1000 <= recording_webm

\* Sum of the measured durations, in ms, of the track's segments before
\* position p.
RECURSIVE MsBefore(_, _)
MsBefore(track, p) ==
    IF p <= 1 THEN 0
    ELSE MsBefore(track, p - 1) + RoundUsToMs(track[p - 1].us)

\* The track holds at most one segment per clip.
OneSegmentPerClip(track) ==
    \A p, q \in 1..Len(track) : track[p].num = track[q].num => p = q

\* C1: in every mix plan (narrator.sh and index.js), for marks in any order, the
\* delay of clip k's audio is the sum of the measured durations, in ms, of the
\* segments that precede clip k's segment in the concatenated track. Stated for
\* tracks with one segment per clip, so that "clip k's segment" is one position.
C1_DelayIsSumOfPrecedingSegments ==
    OneSegmentPerClip(run.video) =>
        \A k \in 1..Len(run.audio) : \A p \in 1..Len(run.video) :
            run.video[p].num = run.audio[k].clip
                => run.audio[k].delay = MsBefore(run.video, p)

\* C2: a mark for a clip number that already has a mark in the log fails with an
\* error and leaves the mark log as it was.
C2_RemarkIsConflict ==
    [][\A n \in ClipNums, elapsed \in ElapsedMs :
          (cmd_mark(n, elapsed) /\ \E i \in MarkIdx : marks[i].num = n)
              => (run'.exit # 0 /\ marks' = marks)]_vars

\* C3: when no encoder call fails, the concat list of an extraction holds the
\* marks whose offsetMs + durationMs is at most the recording's duration
\* (equality included), and no mark whose window exceeds it.
C3_OutOfBoundsSkippedOthersKept ==
    (Extracted /\ NoFailedCall(run))
        => run.list = Nums(SelectSeq(MarkLines, InWindow))

\* The marks the extraction loop hands to the encoder: narrator.sh those inside
\* the recording, index.js all of them.
Eligible == IF impl = "sh" THEN SelectSeq(MarkLines, InWindow) ELSE MarkLines

\* C4: when the encoder fails for one segment of several, the loop still calls
\* the encoder for every other eligible mark, concatenation runs and the
\* session produces a composite.
C4_EncodeFailureIsolated ==
    (Extracted /\ ~NoFailedCall(run) /\ Len(Eligible) >= 2)
        => /\ Len(run.calls) = Len(Eligible)
           /\ InStages(run, "concat")
           /\ output_mp4

\* C5: mark in a session whose start time was never written fails with "Recording
\* start time not set" and appends nothing to the mark log.
C5_MarkBeforeStartFails ==
    [][\A n \in ClipNums, elapsed \in ElapsedMs :
          (cmd_mark(n, elapsed) /\ ~NoSession /\ recording_start_ms = Absent)
              => /\ run'.exit = 1
                 /\ run'.err = "Recording start time not set"
                 /\ marks' = marks]_vars

C5_Witness ==
    /\ ~NoSession
    /\ recording_start_ms = Absent
    /\ run.exit = 1
    /\ run.err = "Recording start time not set"
    /\ MarkIdx = {}

\* C6: mark for a clip number with no recorded duration fails and appends nothing
\* to the mark log; once start has been called the error is "No duration found".
C6_MarkWithoutDurationFails ==
    [][\A n \in ClipNums, elapsed \in ElapsedMs :
          (cmd_mark(n, elapsed) /\ ~NoSession /\ clip_duration_ms[n] = Absent)
              => /\ run'.exit = 1
                 /\ marks' = marks
                 /\ recording_start_ms # Absent => run'.err = "No duration found"]_vars

C6_Witness ==
    /\ ~NoSession
    /\ recording_start_ms # Absent
    /\ \E n \in ClipNums : clip_duration_ms[n] = Absent
    /\ run.exit = 1
    /\ run.err = "No duration found"
    /\ MarkIdx = {}

\* C7: the concat list of an extraction has one entry per surviving mark, in the
\* order in which the marks were inserted into the log.
C7_ConcatListInMarkOrder ==
    (Extracted /\ NoFailedCall(run)) => run.list = Nums(Eligible)

\* Two marks survive whose offsets decrease and whose clip numbers decrease.
C7_Witness ==
    /\ run.list = <<2, 1>>
    /\ InStages(run, "concat")
    /\ Nums(MarkLines) = <<2, 1>>
    /\ MarkLines[1].start_ms > MarkLines[2].start_ms

\* C8: an extraction that leaves no segment ends with an error at the
\* concatenation: no output.mp4 is written and neither mix nor copy nor upload
\* runs.
C8_NoSurvivorsAbortsAtConcat ==
    [][(Extracted' /\ run' # run /\ NoFailedCall(run') /\ run'.list = <<>>)
          => /\ run'.exit # 0
             /\ run'.stages = <<"extract", "concat">>
             /\ output_mp4' = output_mp4]_vars

C8_Witness ==
    /\ MarkIdx # {}
    /\ run.stages = <<"extract", "concat">>
    /\ run.list = <<>>
    /\ run.calls = <<>>
    /\ run.exit # 0
    /\ ~output_mp4

C10_FirstClipDelayZero ==
    run.audio # <<>> =>
        /\ run.audio[1].delay = 0
        /\ \A k \in 1..Len(run.audio) : run.audio[k].input = k
        /\ run.inputs = Len(run.audio)
        /\ InStages(run, "mix")
        /\ ~InStages(run, "copy")

C10_Witness ==
    /\ Len(run.audio) = 1
    /\ run.audio[1].delay = 0
    /\ run.inputs = 1
    /\ InStages(run, "mix")
    /\ output_mp4

\* C11: in every mix plan the delays are non-decreasing in the order in which
\* the clips were added to the mix.
C11_DelaysNonDecreasing ==
    \A j, k \in 1..Len(run.audio) :
        j <= k => run.audio[j].delay <= run.audio[k].delay

C11_Witness ==
    /\ Len(run.audio) >= 2
    /\ run.audio[1].delay < run.audio[2].delay
    /\ InStages(run, "mix")

\* Sum of the durations of a track, and of the segments the encoder wrote.
RECURSIVE TrackUs(_)
TrackUs(track) ==
    IF track = <<>> THEN 0 ELSE Head(track).us + TrackUs(Tail(track))
RECURSIVE WrittenUs(_)
WrittenUs(calls) ==
    IF calls = <<>> THEN 0 ELSE Head(calls).us + WrittenUs(Tail(calls))

\* One encoder rounding step (one frame at 25 fps), in microseconds.
EncoderStepUs == 40000

\* C12: for every mark list with valid bounds, also one that marks a clip
\* number twice with audio run again in between, the duration of the
\* concatenated track is the sum of the measured durations of the segments the
\* encoder wrote, one per surviving mark, within one rounding step per segment.
C12_TrackIsSumOfSegments ==
    (Extracted /\ run.video # <<>>) =>
        LET diff == TrackUs(run.video) - WrittenUs(run.calls) IN
        /\ Len(run.video) = Len(run.calls)
        /\ diff <= Len(run.video) * EncoderStepUs
        /\ -diff <= Len(run.video) * EncoderStepUs

\* calculateSegmentTimings has returned.
Called == segmentTimings # <<>>

\* The character offset of segment i (from 1) in the joined text: the lengths
\* of the segments before it and one joining space for each of them.
RECURSIVE OffsetOf(_)
OffsetOf(i) == IF i = 1 THEN 0 ELSE OffsetOf(i - 1) + segments[i - 1].len + 1

\* charStartTimes[c] of the code (c from 0), and the last entry of the array.
TimeAt(c) == charStartTimes[c + 1]
LastTime == charStartTimes[Len(charStartTimes)]

\* Every segment has text.
NonEmptySegments == \A i \in 1..Len(segments) : segments[i].len > 0

\* C13: the start time of each segment is charStartTimes[c] when its character
\* offset c is inside the array, and otherwise the last timestamp of the array
\* (arrays that have one); stated for segments that all have text.
C13_StartTimeOrLastTimestamp ==
    (Called /\ NonEmptySegments) =>
        /\ Len(segmentTimings) = Len(segments)
        /\ \A i \in 1..Len(segments) :
              LET c == OffsetOf(i) IN
              IF c < Len(charStartTimes)
              THEN segmentTimings[i].startTimeSec = TimeAt(c)
              ELSE Len(charStartTimes) > 0
                       => segmentTimings[i].startTimeSec = LastTime

\* C14: the end time of a segment of length L at character offset c is
\* charStartTimes[c + L] when c + L is inside the array and otherwise the final
\* timestamp of the array; an empty array, which has none, gives undefined.
C14_EndTimeOrFinalTimestamp ==
    Called =>
        \A i \in 1..Len(segments) :
            LET e == OffsetOf(i) + segments[i].len IN
            segmentTimings[i].endTimeSec =
                IF e < Len(charStartTimes) THEN TimeAt(e)
                ELSE IF Len(charStartTimes) > 0 THEN LastTime
                ELSE Undefined

\* One segment ends inside the array and a later one beyond it.
C14_Witness ==
    /\ Called
    /\ \E i, j \in 1..Len(segments) :
          /\ OffsetOf(i) + segments[i].len < Len(charStartTimes)
          /\ OffsetOf(j) + segments[j].len >= Len(charStartTimes)
          /\ segmentTimings[i].endTimeSec < segmentTimings[j].endTimeSec
          /\ segmentTimings[j].endTimeSec = LastTime

\* C15: the start time of segment i is read at the sum of the lengths of the
\* segments before it plus one joining space for each; for segments of 12 and 8
\* characters that is charStartTimes[0] and charStartTimes[13].
C15_OffsetsCountJoiningSpaces ==
    Called =>
        /\ \A i \in 1..Len(segments) :
              OffsetOf(i) < Len(charStartTimes)
                  => segmentTimings[i].startTimeSec = TimeAt(OffsetOf(i))
        /\ (segments = ExampleSegments /\ charStartTimes = ExampleTimes)
              => /\ segmentTimings[1].startTimeSec = TimeAt(0)
                 /\ segmentTimings[2].startTimeSec = TimeAt(13)

C15_Witness ==
    /\ Called
    /\ segments = ExampleSegments
    /\ charStartTimes = ExampleTimes
    /\ segmentTimings[1].startTimeMs = 0
    /\ segmentTimings[2].startTimeMs = 650

\* C16: no timing list is returned for a segment list that holds a segment of
\* zero length.
C16_ZeroLengthSegmentRejected ==
    Called => \A i \in 1..Len(segments) : segments[i].len > 0

\* C17: for every non-decreasing charStartTimes array, also one shorter than
\* the joined text, the returned timings are ordered by startTimeMs ascending;
\* stated for segments that all have text.
C17_OrderedByStartTimeMs ==
    (Called /\ NonEmptySegments) =>
        \A i, j \in 1..Len(segmentTimings) :
            i <= j => segmentTimings[i].startTimeMs <= segmentTimings[j].startTimeMs

\* C18: every sleep call of the scheduler (each cue's wait, the final
\* remaining-time wait) has an argument greater than 0.
C18_SleepOnlyWhenPositive ==
    \A k \in 1..Len(sleeps) : sleeps[k] > 0

\* A page of three cues is finished late: the scheduler slept for one cue only;
\* the cue due at once, the cue already overdue and the remaining-time wait, which
\* had run out, made no sleep call.
C18_Witness ==
    /\ impl = "js"
    /\ pc = "stop"
    /\ Len(clips[page_i].segmentTimings) = 3
    /\ Len(sleeps) = 1
    /\ now - segmentStartTime > clips[page_i].durationMs

\* The longest time one call of the browser driver takes.
MaxLatencyMs == CHOOSE m \in BrowserLatenciesMs : \A l \in BrowserLatenciesMs : l <= m

\* C19: when the scheduler leaves a page, the wall-clock time since
\* segmentStartTime is the clip's durationMs, give or take one action's latency.
C19_ClipTakesItsDuration ==
    [][pc = "remaining" =>
          LET spent == now' - segmentStartTime
              durationMs == clips[page_i].durationMs
          IN  /\ spent - durationMs <= MaxLatencyMs
              /\ durationMs - spent <= MaxLatencyMs]_vars

\* C20: a step of the cue loop, whether its scroll succeeds or fails, goes on to
\* the next cue or to the remaining-time wait: the session is not aborted.
C20_CueFailureNotFatal ==
    [][pc = "cue" => pc' \in {"cue", "remaining"}]_vars

\* createNarratedRecording has thrown to its caller.
Aborted == impl = "js" /\ pc = "done" /\ run.exit # 0

\* The positions of a call in the log of external calls.
CallsOf(name) == {k \in 1..Len(callLog) : callLog[k] = name}

\* C21: when createNarratedRecording has thrown to its caller, whatever the
\* stage that failed, the last external call it made is a close of the browser.
C21_CloseAttemptedOnAbort ==
    Aborted => (callLog # <<>> /\ callLog[Len(callLog)] = "close")

\* The performance pass failed while the browser was open and recording; the
\* close of the catch clause closed it.
C21_Witness ==
    /\ Aborted
    /\ run.err = "perform"
    /\ CallsOf("record start") # {}
    /\ browser = "closed"
    /\ callLog[Len(callLog)] = "close"

\* C22: when createNarratedRecording has thrown to its caller after the
\* recording was started, a record stop was issued after the record start.
C22_RecordingStoppedOnAbort ==
    Aborted =>
        \A k \in CallsOf("record start") :
            \E j \in CallsOf("record stop") : j > k

\* No intermediate file is left in the session directory.
NoIntermediates ==
    /\ \A n \in FileNums : segment_mp4[n] = Absent
    /\ ~concat_list
    /\ ~concat_mp4

\* C23: when createNarratedRecording has ended, with a result or with an error,
\* and output.mp4 was produced, no segment file, concat track or concat list is
\* left.
C23_IntermediatesRemoved ==
    (impl = "js" /\ pc = "done" /\ output_mp4) => NoIntermediates

\* Whether sequence a is the beginning of sequence b.
IsPrefix(a, b) == Len(a) <= Len(b) /\ \A k \in 1..Len(a) : a[k] = b[k]

\* The lines of marks.txt that have three fields and whose window lies inside
\* the recording, in file order.
UsableLines == SelectSeq(marks, LAMBDA m : m.kind = "mark" /\ InWindow(m))

\* C24: in a narrator.sh finalize that got as far as the extraction, the encoder is called
\* for the well-formed lines in file order and for no other line; unless an
\* encoder call itself fails it is called for every one of them, those after a
\* comment, an empty line or a line of fewer than three fields included, and
\* the script goes on to the concatenation.
C24_MalformedLinesSkipped ==
    (impl = "sh" /\ Extracted) =>
        /\ IsPrefix(Nums(run.calls), Nums(UsableLines))
        /\ NoFailedCall(run)
              => /\ Nums(run.calls) = Nums(UsableLines)
                 /\ InStages(run, "concat")

\* A line of fewer than three fields between two well-formed lines: both were
\* extracted and finalize succeeded.
C24_Witness ==
    /\ Extracted
    /\ Len(marks) = 3
    /\ marks[1].kind = "mark"
    /\ marks[2].kind = "text"
    /\ marks[3].kind = "mark"
    /\ Nums(run.calls) = <<1, 2>>
    /\ run.exit = 0
    /\ output_mp4

\* C25: every mark of the log has a clip number of at least 1, an offset of at
\* least 0 and a duration above 0.
C25_MarksWellTyped ==
    \A i \in MarkIdx :
        /\ marks[i].num >= 1
        /\ marks[i].start_ms >= 0
        /\ marks[i].duration_ms > 0

\* C26: a start, audio or mark command, and every step of
\* createNarratedRecording, leaves the entries already in the mark log where
\* they are; a mark command that succeeds, and the push of the page loop, add
\* exactly one entry at the end.
C26_MarkLogAppendOnly ==
    [][/\ (Start \/ Audio \/ Mark \/ impl = "js") => IsPrefix(marks, marks')
       /\ (Mark /\ run'.exit = 0)
             => /\ Len(marks') = Len(marks) + 1
                /\ marks'[Len(marks')].kind = "mark"
       /\ (impl = "js" /\ marks' # marks)
             => /\ Len(marks') = Len(marks) + 1
                /\ marks'[Len(marks')].num = page_i]_vars

\* Two marks in the log in the order of the calls, which is neither the order
\* of their clip numbers nor (start was called again in between) of their
\* offsets.
C26_Witness ==
    /\ impl = "sh"
    /\ Len(marks) = 3
    /\ marks[1].kind = "comment"
    /\ marks[2].num > marks[3].num
    /\ marks[2].start_ms > marks[3].start_ms
    /\ run.exit = 0

\* C27: once concatenation, mixing or upload has failed in
\* createNarratedRecording, no later stage runs (no cleanup, and no output.mp4
\* after a failed concatenation or mix), and the call ends with an error answer
\* that names that failure.
C27_PostFailureFatal ==
    (impl = "js" /\ run.err \in {"concat", "mix", "upload"}) =>
        /\ pc \in {"catch", "done"}
        /\ pc = "done" => run.exit # 0
        /\ run.stages[Len(run.stages)] = run.err
        /\ ~InStages(run, "cleanup")
        /\ run.err \in {"concat", "mix"} => ~output_mp4

\* The mix failed after a good concatenation: the call has ended with the mix
\* error and without output.mp4.
C27_Witness ==
    /\ impl = "js"
    /\ pc = "done"
    /\ run.err = "mix"
    /\ run.exit # 0
    /\ concat_mp4
    /\ ~output_mp4

SleepClip == IF pc = "page" THEN clips[page_i - 1] ELSE clips[page_i]

\* C29: every sleep call made for a page, for a cue or for the rest of the
\* clip, has an argument of at most the clip's durationMs.
C29_WaitsBoundedByDuration ==
    (impl = "js" /\ sleeps # <<>>) =>
        \A k \in 1..Len(sleeps) : sleeps[k] <= SleepClip.durationMs

\* A page with cues on which the scheduler slept for two cues and for the rest
\* of the clip.
C29_Witness ==
    /\ impl = "js"
    /\ pc = "stop"
    /\ Len(clips[page_i].segmentTimings) = 3
    /\ sleeps = <<800, 100, 100>>
    /\ now - segmentStartTime = clips[page_i].durationMs

\* C30: after every init the current session has an empty mark log, clip count
\* 0, no recording start time and no clip duration.
C30_InitStartsClean ==
    [][SessionInit
          => /\ MarkIdx' = {}
             /\ clip_count' = 0
             /\ recording_start_ms' = Absent
             /\ \A n \in FileNums : clip_duration_ms'[n] = Absent]_vars

\* The scheduler has left page k's clip at its "Completed segment" point: the
\* page loop is at the next page or past its last page.
ClipCompleted(k) ==
    \/ pc = "page" /\ page_i > k
    \/ pc = "stop" /\ page_i = k

\* C31: the cue loop of every clip terminates at the clip-completed point: once
\* the scheduler is in the cue loop of page k, it reaches the end of page k's
\* iteration of the page loop.
C31_ClipLoopCompletes ==
    \A k \in 1..MaxPages :
        (pc = "cue" /\ page_i = k) ~> ClipCompleted(k)

\* Every suspension returns and the loop is left: the scheduler does not stay
\* in the cue loop or in the remaining-time wait.
C31_LoopIsLeft ==
    (pc \in {"cue", "remaining"}) ~> (pc \notin {"cue", "remaining"})

\* The time the step from this state suspends for: the argument of the sleep
\* call it makes, 0 when it makes none.
SleptInStep == IF Len(sleeps') > Len(sleeps) THEN sleeps'[Len(sleeps')] ELSE 0

\* C32: in every step of the cue loop the cue's action starts (after the wait,
\* if any) no earlier than its startTimeMs after segmentStartTime; when the
\* previous action had finished by startTimeMs it starts at startTimeMs exactly,
\* whatever the latencies before it; and the next cue handled is the next of the
\* list.
C32_CueStartsAtItsTime ==
    [][pc = "cue" =>
          LET segment == clips[page_i].segmentTimings[segIdx]
              finishedMs == now - segmentStartTime
              startedMs == finishedMs + SleptInStep
          IN  /\ startedMs >= segment.startTimeMs
              /\ finishedMs <= segment.startTimeMs
                     => startedMs = segment.startTimeMs
              /\ pc' = "cue" => segIdx' = segIdx + 1 /\ page_i' = page_i
              /\ pc' = "remaining" => segIdx = Len(clips[page_i].segmentTimings)]_vars

\* The second cue (800 ms) has started on time after the first cue's action
\* took 300 ms: the wait was 500 ms, and the third cue is next.
C32_Witness ==
    /\ impl = "js"
    /\ pc = "cue"
    /\ segIdx = 3
    /\ sleeps = <<500>>
    /\ now - segmentStartTime = 800

\* The marks pushed by the performance pass, in the order pushed.
JsMarks == IF impl = "js" THEN marks ELSE <<>>

\* C33: the marks of createNarratedRecording do not overlap and are in time
\* order: a later mark's offset is at least an earlier mark's offset plus its
\* duration.
C33_MarksDoNotOverlap ==
    \A i, j \in 1..Len(JsMarks) :
        i < j => JsMarks[j].start_ms >= JsMarks[i].start_ms + JsMarks[i].duration_ms

\* Two pages performed, the first with a three-second clip in the timed-cue
\* branch, the second in the fallback branch; the second mark lies after the
\* first clip's window.
C33_Witness ==
    /\ impl = "js"
    /\ pc = "stop"
    /\ Len(marks) = 2
    /\ clips[1].durationMs = 3000
    /\ Len(clips[1].segmentTimings) > 0
    /\ clips[2].segmentTimings = <<>>
    /\ marks[2].start_ms >= marks[1].start_ms + 3000

\* C34: when `record stop` is about to be issued, the window of every mark ends
\* no later than the wall-clock time elapsed since recordingStartMs.
C34_MarksInsideRecordedTime ==
    impl = "js" /\ pc = "stop" =>
        \A i \in 1..Len(marks) :
            marks[i].start_ms + marks[i].duration_ms <= now - recording_start_ms

\* Two pages performed; the last mark's window ends at the moment the stop is
\* issued.
C34_Witness ==
    /\ impl = "js"
    /\ pc = "stop"
    /\ Len(marks) = 2
    /\ marks[2].start_ms + marks[2].duration_ms = now - recording_start_ms

\* The clips whose segment the reported extraction wrote, and the measured
\* length of a clip's segment as the last such call left it.
WroteNow == {run.calls[k].num : k \in {q \in 1..Len(run.calls) : run.calls[q].wrote}}
SegUsOf(n) ==
    LET ks == {q \in 1..Len(run.calls) : run.calls[q].wrote /\ run.calls[q].num = n}
        last == CHOOSE q \in ks : \A r \in ks : r <= q
    IN  run.calls[last].us

\* Sum of the measured lengths, in ms, of the segments of the plan's streams
\* before stream k.
RECURSIVE PlanMsBefore(_, _)
PlanMsBefore(plan, k) ==
    IF k <= 1 THEN 0
    ELSE PlanMsBefore(plan, k - 1) + RoundUsToMs(SegUsOf(plan[k - 1].clip))

\* C35: in the mix of a finalize of narrator.sh that ran to its end, the clips
\* mixed are those with an audio file and a segment extracted from their mark;
\* a clip whose mark was dropped is no input and adds no delay; the inputs are
\* labelled 1..n and the mix is told n inputs.
C35_MixedIffAudioAndSegment ==
    (impl = "sh" /\ Extracted /\ InStages(run, "cleanup")) =>
        LET n == Len(run.audio)
            mixed == {run.audio[k].clip : k \in 1..n}
        IN  /\ mixed = {i \in FileNums : i \in clip_mp3 /\ i \in WroteNow}
            /\ \A k \in 1..n : run.audio[k].input = k
            /\ \A j, k \in 1..n : run.audio[j].clip = run.audio[k].clip => j = k
            /\ run.inputs = n
            /\ \A k \in 1..n : run.audio[k].delay = PlanMsBefore(run.audio, k)

\* C36: every audio or mark call of a session leaves clip_count at least what
\* it was and at least the clip number of every mark of the log.
C36_MarkedClipsWithinCount ==
    [][(ProviderAudio \/ Mark) =>
          /\ clip_count' >= clip_count
          /\ \A i \in 1..Len(marks') :
                 marks'[i].kind = "mark" => marks'[i].num <= clip_count']_vars

\* C37: in narrator.sh the recorded start time T0 is changed by start (and by
\* init, which begins a session) only, and never while the mark log holds a
\* mark that stays in it: all marks of a log are offsets from one T0.
C37_OneBaselinePerLog ==
    [][(impl = "sh" /\ recording_start_ms' # recording_start_ms) =>
          /\ Start \/ SessionInit
          /\ MarkIdx # {} =>
                 \A i \in 1..Len(marks') : marks'[i].kind # "mark"]_vars

\* The files of the session directory that finalize creates or removes.
FinalizeFiles == <<segment_mp4, concat_list, concat_mp4, output_mp4>>

\* C38: a finalize of narrator.sh called with no active session, with no saved
\* recording or with clip_count 0 exits with an error and leaves every segment,
\* the concat list, the concat track and the output file as they were, along
\* with the rest of the session.
C38_RefusedFinalizeChangesNothing ==
    [][(/\ impl = "sh"
        /\ NoSession \/ recording_webm = Absent \/ clip_count = 0
        /\ \E concat_exit, mix_exit \in {0, 1} :
               cmd_finalize(<<>>, concat_exit, mix_exit))
          => /\ run'.exit = 1
             /\ run'.err \in {"No active session", "No recording found",
                              "No clips found"}
             /\ run'.stages = <<>>
             /\ UNCHANGED FinalizeFiles
             /\ UNCHANGED <<session_id, clip_count, marks, recording_start_ms,
                            clip_duration_ms, clip_mp3, recording_webm>>]_vars

\* A finalize of a session with a marked clip and no saved recording has been
\* refused, and no concat list was made.
C38_Witness ==
    /\ impl = "sh"
    /\ ~NoSession
    /\ recording_webm = Absent
    /\ clip_count > 0
    /\ MarkIdx # {}
    /\ run.exit = 1
    /\ run.err = "No recording found"
    /\ ~concat_list

\* C39: when post-processing of createNarratedRecording starts, the mark list
\* and the clip list hold one entry per requested page, entry i of each with
\* clip number i; and when post-processing has succeeded, the clips of the mix
\* plan are, in order, the clips of the concat list.
C39_OneMarkPerPageInOrder ==
    /\ (impl = "js" /\ pc = "post") =>
           /\ Len(marks) = pages
           /\ Len(clips) = pages
           /\ \A i \in 1..pages :
                  /\ marks[i].kind = "mark"
                  /\ marks[i].num = i
                  /\ clips[i].clipNum = i
                  /\ marks[i].duration_ms = clips[i].durationMs
    /\ (impl = "js" /\ pc = "upload") =>
           /\ run.list = [k \in 1..pages |-> k]
           /\ [k \in 1..Len(run.audio) |-> run.audio[k].clip] = run.list

\* Post-processing is about to start for two pages.
C39_Witness ==
    /\ impl = "js"
    /\ pc = "post"
    /\ pages = 2
    /\ Nums(marks) = <<1, 2>>

====
